---- MODULE Spec2Model ----
(***************************************************************************)
(* ProcessGameState (src/Class.py): a frame table loaded once, annotated   *)
(* by _preprocess with is_inside and weapon_classes, and then queried by   *)
(* enterChokePoint, averageTimer and create_heatmap.                       *)
(*                                                                         *)
(* The table self.df is a sequence of rows; a row's position in it is its  *)
(* pandas index label, so a filtered, sorted or de-duplicated frame is a   *)
(* sequence of positions of self.df.  The column has_target_weapons, which *)
(* averageTimer adds to self.df, is a variable of its own.                 *)
(***************************************************************************)
EXTENDS Integers, Sequences, FiniteSets, TLC

VARIABLES
    df,                  \* self.df after _preprocess
    area,                \* self.area: the polygon's vertices
    z_range,             \* self.z_range: <<zMin, zMax>>
    has_target_weapons,  \* column self.df['has_target_weapons'], NoColumn before the first averageTimer
    last                 \* the last call: its arguments, what it computed and what it returned

vars == <<df, area, z_range, has_target_weapons, last>>

(***************************************************************************)
(* Bounds and input sets                                                   *)
(***************************************************************************)
MaxRows == 3

MinPlayersArgs == {0, 1, 2, 3}

\* seconds of a frame, by round and tick: the round clock, non-decreasing
\* with tick within a round (round 2 holds two ticks of the same second).
Clock == << <<10, 12, 15>>, <<20, 20, 31>> >>

\* the run at the bottom of the source file
vertices == << <<-1735, 250>>, <<-2024, 398>>, <<-2806, 742>>, <<-2472, 1233>>, <<-1565, 580>> >>
z_range_input == <<285, 421>>

NoInventory == [none |-> TRUE, items |-> <<>>]
Inventory(classes) ==
    [none |-> FALSE, items |-> [i \in 1..Len(classes) |-> [weapon_class |-> classes[i]]]]

InsideXY == <<-2100, 640>>
OutsideXY == <<-1000, 500>>

Frame(round_num, tick, player, team, side, area_name, inventory, xy, z) ==
    [round_num |-> round_num, tick |-> tick, seconds |-> Clock[round_num][tick],
     player |-> player, team |-> team, side |-> side, area_name |-> area_name,
     is_alive |-> (inventory.none = FALSE),
     inventory |-> inventory, x |-> xy[1], y |-> xy[2], z |-> z]

\* frames of Team2 on side T around BombsiteB: every tick and player of
\* round 1, two players of round 2, and one frame in another area
StagingRows ==
    {Frame(1, 1, "P1", "Team2", "T", "BombsiteB", Inventory(<<"Pistols", "Rifle">>), OutsideXY, 300),
     Frame(1, 2, "P3", "Team2", "T", "BombsiteB", Inventory(<<"Rifle">>), OutsideXY, 300),
     Frame(1, 3, "P2", "Team2", "T", "BombsiteB", Inventory(<<"SMG">>), OutsideXY, 300),
     Frame(1, 1, "P2", "Team2", "T", "BombsiteB", Inventory(<<"Pistols">>), OutsideXY, 300),
     Frame(1, 2, "P1", "Team2", "T", "BombsiteB", Inventory(<<"Rifle">>), OutsideXY, 300),
     Frame(2, 1, "P1", "Team2", "T", "BombsiteB", Inventory(<<"Rifle">>), OutsideXY, 300),
     Frame(2, 2, "P2", "Team2", "T", "BombsiteB", Inventory(<<"SMG", "Pistols">>), OutsideXY, 300),
     Frame(1, 2, "P2", "Team2", "T", "BombsiteA", Inventory(<<"Rifle">>), OutsideXY, 300)}

\* frames in and around the chokepoint: on and beyond both ends of the
\* z-range, outside the polygon, on the other side and of the other team
ChokeRows ==
    {Frame(1, 1, "P1", "Team2", "T", "TSpawn", Inventory(<<"Rifle">>), InsideXY, 285),
     Frame(1, 2, "P1", "Team2", "T", "TSpawn", Inventory(<<"Rifle">>), InsideXY, 421),
     Frame(1, 1, "P2", "Team2", "T", "TSpawn", Inventory(<<"Pistols">>), InsideXY, 422),
     Frame(1, 2, "P2", "Team2", "T", "TSpawn", NoInventory, OutsideXY, 300),
     Frame(2, 1, "P1", "Team2", "T", "TSpawn", Inventory(<<"SMG">>), InsideXY, 284),
     Frame(2, 2, "P2", "Team2", "CT", "BombsiteB", Inventory(<<"Rifle">>), InsideXY, 300),
     Frame(1, 1, "P4", "Team1", "T", "BombsiteB", Inventory(<<"Rifle">>), InsideXY, 300)}

Tables(rows) == UNION {[1..n -> rows] : n \in 0..MaxRows}

\* the arguments of the calls
ChokeArgs == {[team |-> "Team2", side |-> "T"], [team |-> "Team1", side |-> "T"]}
TimerArgs ==
    {[team |-> "Team2", side |-> "T", area |-> "BombsiteB", target_weapons |-> tw, min_players |-> mp] :
        tw \in {<<"Rifle", "SMG">>, <<"Pistols">>}, mp \in MinPlayersArgs}
HeatmapArgs ==
    {[team |-> "Team2", side |-> "CT", area |-> "BombsiteB"],
     [team |-> "Team2", side |-> "T", area |-> "BombsiteB"]}

(***************************************************************************)
(* _preprocess                                                             *)
(***************************************************************************)
\* matplotlib's Path.contains_point: the even-odd crossing test, one edge
Crosses(v0, v1, tx, ty) ==
    LET yflag0 == v0[2] >= ty
        yflag1 == v1[2] >= ty
    IN  /\ yflag0 # yflag1
        /\ (((v1[2] - ty) * (v0[1] - v1[1]) >= (v1[1] - tx) * (v0[2] - v1[2])) = yflag1)

ContainsPoint(poly, tx, ty) ==
    LET n == Len(poly)
        hits == {i \in 1..n : Crosses(poly[i], poly[(i % n) + 1], tx, ty)}
    IN  Cardinality(hits) % 2 = 1

IsInsidePolygonStrictZ(row, poly, zr) ==
    ContainsPoint(poly, row.x, row.y) /\ (row.z > zr[1]) /\ (row.z < zr[2])

IsInsidePolygon(row, poly, zr) ==
    ContainsPoint(poly, row.x, row.y) /\ (row.z >= zr[1]) /\ (row.z <= zr[2])

WeaponClasses(inventory) ==
    IF inventory.none THEN <<>>
    ELSE [i \in 1..Len(inventory.items) |-> inventory.items[i].weapon_class]

AnnotatedRow(row, poly, zr) ==
    [round_num |-> row.round_num, tick |-> row.tick, seconds |-> row.seconds,
     player |-> row.player, team |-> row.team, side |-> row.side,
     area_name |-> row.area_name, is_alive |-> row.is_alive,
     inventory |-> row.inventory, x |-> row.x, y |-> row.y, z |-> row.z,
     is_inside |-> IsInsidePolygon(row, poly, zr),
     weapon_classes |-> WeaponClasses(row.inventory)]

Preprocess(raw, poly, zr) == [i \in 1..Len(raw) |-> AnnotatedRow(raw[i], poly, zr)]

(***************************************************************************)
(* pandas operations on frames (sequences of positions of d)               *)
(***************************************************************************)
Range(s) == {s[i] : i \in 1..Len(s)}

Positions(d) == [i \in 1..Len(d) |-> i]

\* boolean indexing d[mask]: the rows whose mask is true, in their order
Mask(frame, keep) == LET Kept(i) == i \in keep IN SelectSeq(frame, Kept)


\* drop_duplicates(subset=...), keep='first': a row is kept unless an
\* earlier row of the frame has the same values in the subset's columns
SameKey(d, i, j, subset) == \A c \in subset : d[i][c] = d[j][c]

DropDuplicatesKeepLast(frame, d, subset) ==
    Mask(frame, {frame[k] : k \in {k \in 1..Len(frame) :
        \A j \in (k + 1)..Len(frame) : ~SameKey(d, frame[j], frame[k], subset)}})

DropDuplicates(frame, d, subset) ==
    Mask(frame, {frame[k] : k \in {k \in 1..Len(frame) :
        \A j \in 1..(k - 1) : ~SameKey(d, frame[j], frame[k], subset)}})

\* sort_values(by): pandas sorts with numpy's quicksort, which is not
\* stable, so rows with equal keys may come out in any order; every
\* arrangement of the frame that is ascending in the key is a possible result.
RECURSIVE Orders(_, _, _)
Orders(rows, d, by) ==
    IF rows = {} THEN {<<>>}
    ELSE LET least == {i \in rows : \A j \in rows : d[i][by] <= d[j][by]}
         IN  UNION {{<<i>> \o s : s \in Orders(rows \ {i}, d, by)} : i \in least}

SortValuesOmitted(frame, d, by) == {frame}

SortValuesByRound(frame, d, by) == Orders(Range(frame), d, "round_num")

SortValues(frame, d, by) == Orders(Range(frame), d, by)

\* groupby('round_num'): the keys, and the rows of one group in frame order
GroupKeys(frame, d) == {d[i].round_num : i \in Range(frame)}

Group(frame, d, round_num) == Mask(frame, {i \in Range(frame) : d[i].round_num = round_num})

RECURSIVE Sum(_, _)
Sum(f, keys) ==
    IF keys = {} THEN 0
    ELSE LET k == CHOOSE k \in keys : TRUE IN f[k] + Sum(f, keys \ {k})

(***************************************************************************)
(* averageTimer                                                            *)
(***************************************************************************)
NoColumn == [exists |-> FALSE, values |-> <<>>]

\* any(weapon in x for weapon in target_weapons)
HasTargetWeapons(weapon_classes, target_weapons) ==
    \E w \in 1..Len(target_weapons) : \E k \in 1..Len(weapon_classes) :
        weapon_classes[k] = target_weapons[w]

TargetColumn(d, target_weapons) ==
    [exists |-> TRUE,
     values |-> [i \in 1..Len(d) |-> HasTargetWeapons(d[i].weapon_classes, target_weapons)]]

\* self.df['has_target_weapons'] = ...: the column is written whether or
\* not it exists
AssignColumnOnce(old, new) == IF old.exists THEN old ELSE new

AssignColumn(old, new) == new

TimerFilter(row, has_target, team, side, area_name) ==
    /\ row.team = team
    /\ row.side = side
    /\ row.area_name = area_name
    /\ has_target = TRUE

\* get_tick_two_players: None, the seconds of the row at position 1 of the
\* de-duplicated group, or the KeyError of .at[1, 'seconds'] on one row
GetTickTwoPlayers(group, d, min_players) ==
    LET player_entries == DropDuplicates(group, d, {"player"})
    IN  IF Len(player_entries) >= min_players
        THEN IF Len(player_entries) >= 2
             THEN [kind |-> "value", seconds |-> d[player_entries[2]].seconds]
             ELSE [kind |-> "KeyError", seconds |-> 0]
        ELSE [kind |-> "None", seconds |-> 0]

\* Series.mean(): None is NaN and is skipped; the mean of nothing is NaN
\* (when no group yields a number pandas' apply gives a frame, whose mean()
\* is an empty or all-NaN series: "nan" stands for both).
\* A mean is kept as its sum and its count.
Valued(applied) == {r \in DOMAIN applied : applied[r].kind = "value"}

SecondsOf(applied) == [r \in DOMAIN applied |-> applied[r].seconds]

MeanZeroFill(applied) ==
    IF DOMAIN applied = {} THEN [kind |-> "nan", sum |-> 0, count |-> 0]
    ELSE [kind |-> "mean", sum |-> Sum(SecondsOf(applied), Valued(applied)),
          count |-> Cardinality(DOMAIN applied)]

Mean(applied) ==
    IF Valued(applied) = {} THEN [kind |-> "nan", sum |-> 0, count |-> 0]
    ELSE [kind |-> "mean", sum |-> Sum(SecondsOf(applied), Valued(applied)),
          count |-> Cardinality(Valued(applied))]

NoApplied == [r \in {} |-> [kind |-> "None", seconds |-> 0]]
NoResult == [kind |-> "none", sum |-> 0, count |-> 0]
KeyError == [kind |-> "KeyError", sum |-> 0, count |-> 0]
NoArgs == [team |-> "", side |-> "", area |-> "", target_weapons |-> <<>>, min_players |-> 0]

\* df_filtered of averageTimer, from the column as it stands
TimerFiltered(d, column, a) ==
    Mask(Positions(d), {i \in 1..Len(d) :
        TimerFilter(d[i], column.values[i], a.team, a.side, a.area)})

\* groupby('round_num').apply(get_tick_two_players) on a sorted frame
Applied(sorted, d, min_players) ==
    [r \in GroupKeys(sorted, d) |-> GetTickTwoPlayers(Group(sorted, d, r), d, min_players)]

Raises(applied) == \E r \in DOMAIN applied : applied[r].kind = "KeyError"

\* what the call computes from a sorted frame: the applied series and the
\* mean it returns, or the KeyError that ends the call
Outcome(sorted, d, min_players) ==
    LET applied == Applied(sorted, d, min_players)
    IN  IF Raises(applied) THEN [applied |-> NoApplied, result |-> KeyError]
        ELSE [applied |-> applied, result |-> Mean(applied)]

\* the outcomes the call may have, one for each result of the sort
Outcomes(d, column, a) ==
    {Outcome(sorted, d, a.min_players) :
        sorted \in SortValues(TimerFiltered(d, column, a), d, "tick")}

AverageTimer(a) ==
    LET column == AssignColumn(has_target_weapons, TargetColumn(df, a.target_weapons))
    IN  /\ has_target_weapons' = column
        /\ \E out \in Outcomes(df, column, a) :
              last' = [op |-> "averageTimer", args |-> a,
                       overwrote |-> has_target_weapons.exists /\ has_target_weapons # column,
                       rows |-> <<>>, applied |-> out.applied, result |-> out.result]
        /\ UNCHANGED <<df, area, z_range>>

(***************************************************************************)
(* enterChokePoint and create_heatmap                                      *)
(***************************************************************************)
ChokeFilter(row, team, side) ==
    /\ row.is_inside = TRUE
    /\ row.team = team
    /\ row.side = side

\* the filtered, de-duplicated frame written back to self.df
EnterChokePointInPlace(a) ==
    LET Team2TInside == Mask(Positions(df), {i \in 1..Len(df) : ChokeFilter(df[i], a.team, a.side)})
        subset == DropDuplicates(Team2TInside, df, {"round_num", "player"})
    IN  /\ df' = [k \in 1..Len(subset) |-> df[subset[k]]]
        /\ last' = [op |-> "enterChokePoint",
                    args |-> [NoArgs EXCEPT !.team = a.team, !.side = a.side],
                    overwrote |-> FALSE, rows |-> subset,
                    applied |-> NoApplied, result |-> NoResult]
        /\ UNCHANGED <<area, z_range, has_target_weapons>>

EnterChokePoint(a) ==
    LET Team2TInside == Mask(Positions(df), {i \in 1..Len(df) : ChokeFilter(df[i], a.team, a.side)})
        subset == DropDuplicates(Team2TInside, df, {"round_num", "player"})
    IN  /\ last' = [op |-> "enterChokePoint",
                    args |-> [NoArgs EXCEPT !.team = a.team, !.side = a.side],
                    overwrote |-> FALSE, rows |-> subset,
                    applied |-> NoApplied, result |-> NoResult]
        /\ UNCHANGED <<df, area, z_range, has_target_weapons>>

HeatmapFilter(row, team, side, area_name) ==
    /\ row.team = team
    /\ row.side = side
    /\ row.area_name = area_name
    /\ row.is_alive = TRUE

\* the frame handed to sns.jointplot
CreateHeatmap(a) ==
    LET df_filtered == Mask(Positions(df), {i \in 1..Len(df) :
                            HeatmapFilter(df[i], a.team, a.side, a.area)})
    IN  /\ last' = [op |-> "create_heatmap",
                    args |-> [NoArgs EXCEPT !.team = a.team, !.side = a.side, !.area = a.area],
                    overwrote |-> FALSE, rows |-> df_filtered,
                    applied |-> NoApplied, result |-> NoResult]
        /\ UNCHANGED <<df, area, z_range, has_target_weapons>>

(***************************************************************************)
(* The object after construction, and its calls                            *)
(***************************************************************************)
InitFrom(rows) ==
    /\ area = vertices
    /\ z_range = z_range_input
    /\ \E raw \in Tables(rows) : df = Preprocess(raw, vertices, z_range_input)
    /\ has_target_weapons = NoColumn
    /\ last = [op |-> "none", args |-> NoArgs, overwrote |-> FALSE, rows |-> <<>>,
               applied |-> NoApplied, result |-> NoResult]

Init == InitFrom(StagingRows)

InitChoke == InitFrom(ChokeRows)

Next ==
    \/ \E a \in ChokeArgs : EnterChokePoint(a)
    \/ \E a \in TimerArgs : AverageTimer(a)
    \/ \E a \in HeatmapArgs : CreateHeatmap(a)

\* tables of staging frames
Spec == Init /\ [][Next]_vars

\* tables of chokepoint frames
SpecChoke == InitChoke /\ [][Next]_vars

(***************************************************************************)
(* Vocabulary of the properties, stated on the table itself                *)
(***************************************************************************)
Called(op) == last.op = op

Rounds == {df[i].round_num : i \in 1..Len(df)}

\* a row matching team, side, area and target weapons of the last averageTimer
Qualifies(i) ==
    /\ df[i].team = last.args.team
    /\ df[i].side = last.args.side
    /\ df[i].area_name = last.args.area
    /\ Range(df[i].weapon_classes) \cap Range(last.args.target_weapons) # {}

QualifyingRows(r) == {i \in 1..Len(df) : df[i].round_num = r /\ Qualifies(i)}

Qualifiers(r) == {df[i].player : i \in QualifyingRows(r)}

QualifyingRounds == {r \in Rounds : Cardinality(Qualifiers(r)) >= last.args.min_players}

Min(S) == CHOOSE m \in S : \A n \in S : m <= n

\* tick and seconds of a player's first qualifying row of round r
FirstTick(p, r) == Min({df[i].tick : i \in {i \in QualifyingRows(r) : df[i].player = p}})

FirstTime(p, r) == Min({df[i].seconds : i \in {i \in QualifyingRows(r) : df[i].player = p}})

\* the seconds of the first qualifying row of the n-th distinct player of
\* round r, players ordered by the tick of their first qualifying row
NthPlayerTimes(r, n) ==
    {df[i].seconds : i \in {i \in QualifyingRows(r) :
        /\ df[i].tick = FirstTick(df[i].player, r)
        /\ Cardinality({p \in Qualifiers(r) : FirstTick(p, r) < df[i].tick}) < n
        /\ Cardinality({p \in Qualifiers(r) : FirstTick(p, r) <= df[i].tick}) >= n}}

\* the n-th earliest of the players' first qualifying times of round r
NthEarliestTimes(r, n) ==
    {t \in {FirstTime(p, r) : p \in Qualifiers(r)} :
        /\ Cardinality({p \in Qualifiers(r) : FirstTime(p, r) < t}) < n
        /\ Cardinality({p \in Qualifiers(r) : FirstTime(p, r) <= t}) >= n}

SecondsNonDecreasing ==
    \A i, j \in 1..Len(df) :
        (df[i].round_num = df[j].round_num /\ df[i].tick <= df[j].tick)
            => df[i].seconds <= df[j].seconds

PerRoundValue(r) == r \in DOMAIN last.applied /\ last.applied[r].kind = "value"

\* the outcomes of the last averageTimer's arguments on a column
OutcomesOn(column) == Outcomes(df, column, last.args)

LastOutcome == [applied |-> last.applied, result |-> last.result]

(***************************************************************************)
(* C1.  For min_players >= 1, every round with at least min_players        *)
(* distinct qualifying players has as its per-round result the seconds of  *)
(* the first qualifying row of the min_players-th distinct player, players *)
(* ordered by the tick of their first qualifying row.                      *)
(* The code takes the row at position 1 whatever min_players is.           *)
(***************************************************************************)
C1_NthPlayerTime ==
    (Called("averageTimer") /\ last.args.min_players >= 1) =>
        \A r \in QualifyingRounds :
            /\ PerRoundValue(r)
            /\ last.applied[r].seconds \in NthPlayerTimes(r, last.args.min_players)

ChokeMatches ==
    {i \in 1..Len(df) :
        df[i].is_inside /\ df[i].team = last.args.team /\ df[i].side = last.args.side}

RoundPlayer(i) == <<df[i].round_num, df[i].player>>

C3_OneRowPerRoundPlayer ==
    Called("enterChokePoint") =>
        /\ \A k1, k2 \in 1..Len(last.rows) :
              k1 # k2 => RoundPlayer(last.rows[k1]) # RoundPlayer(last.rows[k2])
        /\ Range(last.rows) \subseteq ChokeMatches
        /\ {RoundPlayer(i) : i \in Range(last.rows)} = {RoundPlayer(i) : i \in ChokeMatches}
        /\ \A i \in Range(last.rows) : \A j \in ChokeMatches :
              RoundPlayer(j) = RoundPlayer(i) => i <= j

\* a pair with two matching rows, one of them dropped, beside a row that does not match
C3_Witness ==
    /\ Called("enterChokePoint")
    /\ \E i \in Range(last.rows) : \E j \in ChokeMatches \ Range(last.rows) :
          RoundPlayer(j) = RoundPlayer(i) /\ i < j
    /\ \E i \in 1..Len(df) : i \notin ChokeMatches

(***************************************************************************)
(* C4.  Every row's is_inside is true iff the polygon contains (x, y) and  *)
(* zMin <= z <= zMax, both ends included.                                  *)
(***************************************************************************)
C4_IsInsideIffPolygonAndZRange ==
    \A i \in 1..Len(df) :
        df[i].is_inside =
            (/\ ContainsPoint(area, df[i].x, df[i].y)
             /\ z_range[1] <= df[i].z
             /\ df[i].z <= z_range[2])

\* after an averageTimer: rows on both ends of the z-range are inside, a row
\* above it over the polygon is not
C4_Witness ==
    /\ has_target_weapons.exists
    /\ \E i \in 1..Len(df) : df[i].z = z_range[1] /\ df[i].is_inside
    /\ \E i \in 1..Len(df) : df[i].z = z_range[2] /\ df[i].is_inside
    /\ \E i \in 1..Len(df) :
          df[i].z > z_range[2] /\ ContainsPoint(area, df[i].x, df[i].y) /\ ~df[i].is_inside

(***************************************************************************)
(* C5.  When no round has min_players distinct qualifying players,         *)
(* averageTimer returns an explicit "no qualifying rounds" outcome, not a  *)
(* NaN.  The code returns the NaN of a mean over nothing.                  *)
(***************************************************************************)
C5_ExplicitNoQualifyingRounds ==
    (Called("averageTimer") /\ last.args.min_players >= 1 /\ QualifyingRounds = {}) =>
        last.result.kind = "no_qualifying_rounds"

(***************************************************************************)
(* C6.  For min_players = 2 the per-round result is the second-earliest of *)
(* the distinct qualifying players' first qualifying times, whatever the   *)
(* order of the rows in the table.                                         *)
(***************************************************************************)
C6_SecondEarliest ==
    (Called("averageTimer") /\ last.args.min_players = 2) =>
        \A r \in QualifyingRounds :
            /\ PerRoundValue(r)
            /\ last.applied[r].seconds \in NthEarliestTimes(r, 2)

\* the table lists P1 at 10, P2 at 15 and P3 at 12 in this order, and round 1 yields 12
C6_Witness ==
    /\ Called("averageTimer")
    /\ last.args.min_players = 2
    /\ Len(df) = 3
    /\ \A i \in 1..3 : df[i].round_num = 1 /\ Qualifies(i)
    /\ <<df[1].player, df[1].seconds>> = <<"P1", 10>>
    /\ <<df[2].player, df[2].seconds>> = <<"P2", 15>>
    /\ <<df[3].player, df[3].seconds>> = <<"P3", 12>>
    /\ PerRoundValue(1)
    /\ last.applied[1].seconds = 12

(***************************************************************************)
(* C7.  Each averageTimer call gives what the same call gives as the first *)
(* call on a freshly annotated table: the column is recomputed from        *)
(* weapon_classes and the call's own targets, whatever was called before.  *)
(***************************************************************************)
C7_NoCrossCallInfluence ==
    Called("averageTimer") =>
        /\ has_target_weapons = TargetColumn(df, last.args.target_weapons)
        /\ LastOutcome \in OutcomesOn(TargetColumn(df, last.args.target_weapons))

\* a call that replaced the column an earlier call had left, and returned a mean
C7_Witness ==
    /\ Called("averageTimer")
    /\ last.overwrote
    /\ last.result.kind = "mean"

(***************************************************************************)
(* C8.  No call changes the polygon, the z-range or the rows (their        *)
(* number, order, raw fields, is_inside, weapon_classes); enterChokePoint  *)
(* and create_heatmap change nothing at all, and averageTimer only the     *)
(* has_target_weapons column.                                              *)
(***************************************************************************)
C8_QueriesWriteOnlyTargetColumn ==
    [][/\ df' = df
       /\ area' = area
       /\ z_range' = z_range
       /\ last'.op \in {"enterChokePoint", "create_heatmap"} =>
             has_target_weapons' = has_target_weapons]_vars

\* enterChokePoint after an averageTimer, on a full table
C8_Witness ==
    /\ Called("enterChokePoint")
    /\ has_target_weapons.exists
    /\ Len(df) = MaxRows
    /\ last.rows # <<>>

(***************************************************************************)
(* C9.  averageTimer with min_players < 1 is rejected with a configuration *)
(* error and yields no per-round result and no mean.  The code has no such *)
(* check.                                                                  *)
(***************************************************************************)
C9_RejectsMinPlayersBelowOne ==
    (Called("averageTimer") /\ last.args.min_players < 1) =>
        /\ last.result.kind = "ConfigurationError"
        /\ last.applied = NoApplied

(***************************************************************************)
(* C10.  On a table whose seconds are non-decreasing with tick within each *)
(* round, every order the sort may give to rows of equal tick yields the   *)
(* same per-round results and the same mean.                               *)
(***************************************************************************)
C10_TieOrderIrrelevant ==
    (Called("averageTimer") /\ SecondsNonDecreasing) =>
        \A out \in OutcomesOn(has_target_weapons) : out = LastOutcome

\* two players' qualifying rows of one tick in a round that has a result
C10_Witness ==
    /\ Called("averageTimer")
    /\ SecondsNonDecreasing
    /\ \E r \in Rounds :
          /\ PerRoundValue(r)
          /\ \E i, j \in QualifyingRows(r) :
                /\ df[i].tick = df[j].tick
                /\ df[i].player # df[j].player
                /\ df[i].tick = FirstTick(df[i].player, r)
                /\ df[j].tick = FirstTick(df[j].player, r)

====
